---- MODULE Spec2Model ----
(***************************************************************************)
(* Wallet abstraction of MeshJS/polkadot.                                  *)
(*                                                                         *)
(*  Spec         EmbeddedWallet of packages/mesh-polkadot-wallet: init,    *)
(*               isInitialized, signTx, verifySignature, the disconnect    *)
(*               its test calls, and the chain the wallet talks to.        *)
(*  SpecBrowser  BrowserWallet: loadContract, query, awaitTx, and the      *)
(*               node's transaction pool.                                  *)
(*  SpecExtension  BrowserWallet of packages/polkadot over the injected    *)
(*               extensions: getAvailableWallets, enable, signData.        *)
(*  SpecDerive   buildDerivation and the EmbeddedWallet constructor that   *)
(*               hands its result to the keyring.                          *)
(***************************************************************************)
EXTENDS Integers, Sequences, FiniteSets, TLC

(* ------------------------------ bounds -------------------------------- *)
\* operations the caller invokes on one wallet (init, signTx, query, ...)
MaxOps == 4
\* account transactions the chain includes
MaxNonce == 2

Calls == 1..MaxOps
Inits == 1..MaxOps
Queries == 1..MaxOps

(* ----------------------------- constants ------------------------------ *)
\* `_api?: ApiPromise` before any assignment
Undefined == 0
\* the wallet's own `_keyringPair`, and a pair of somebody else
OwnPair == 1
OtherPair == 2
\* genesis hash and runtime version of the chain behind `_wsProvider`
GenesisHash == 9
RuntimeVersion == 7
\* first byte of an encoded extrinsic: version 4, bit 7 set when signed
ExtrinsicVersion == 4
SignedBit == 128

VARIABLES
    ops,          \* operations invoked so far
    api,          \* EmbeddedWallet._api: Undefined or the ApiPromise of an init
    initPc,       \* each init() call: "idle", "creating", "resolved", "rejected"
    connected,    \* the connection over _wsProvider is up
    disconnected, \* disconnect() has been called on the handle
    call,         \* each signTx call: its position, locals and outcome
    verified,     \* input and outcome of the latest verifySignature call
    nextIndex,    \* chain: account next index (nonce)
    head,         \* chain: finalized head
    included,     \* chain: calls whose signed transaction was included
    variant,      \* which wallet class the handle with contracts is
    contracts,    \* the wallet's contracts: name -> ContractPromise
    loaded,       \* per name the latest accepted loadContract, and the last call
    qry,          \* each query() call: position and outcome
    atx,          \* each awaitTx call: position, locals and outcome
    pool,         \* node: submitted, not yet included transactions
    keyringPair,  \* EmbeddedWallet._keyringPair
    built,        \* EmbeddedWallets constructed from a derivation
    injectedWeb3, \* window.injectedWeb3: the extensions of the page, in order
    web3EnablePromise, \* extension-dapp: web3Enable has been called
    discovery,    \* the latest getAvailableWallets call
    enabling,     \* the latest enable call
    connections,  \* ApiPromise connections opened by initPolkadotApi, open
    wallets,      \* BrowserWallets constructed by enable, in order
    signing,      \* the latest signData call
    polkadotApi   \* each initPolkadotApi call: arguments, position, outcome

embeddedVars == <<api, initPc, connected, disconnected, call, verified>>
chainVars == <<nextIndex, head, included>>
browserVars == <<variant, contracts, loaded, qry, atx, pool>>
keyVars == <<keyringPair, built>>
extVars == <<injectedWeb3, web3EnablePromise, discovery, enabling, connections,
             wallets, signing>>
coreVars == <<polkadotApi>>
vars == <<ops, embeddedVars, chainVars, browserVars, keyVars, extVars,
          coreVars>>

(* --------------------- extrinsic encoding (codec) --------------------- *)
\* An extrinsic as GenericExtrinsic holds it.
Unsigned(c) ==
    [signed |-> FALSE, signer |-> 0, nonce |-> 0, genesisHash |-> 0,
     blockHash |-> 0, runtimeVersion |-> 0, method |-> c]

\* new GenericExtrinsic(registry, serialisedTx): the empty string decodes to
\* the default (unsigned, empty call) extrinsic; otherwise bit 7 of the first
\* byte says whether a signature block follows.
GenericExtrinsic(s) ==
    IF Len(s) = 0 THEN Unsigned(0)
    ELSE IF s[1] >= SignedBit
         THEN [signed |-> TRUE, signer |-> s[2], nonce |-> s[3],
               genesisHash |-> s[4], blockHash |-> s[5],
               runtimeVersion |-> s[6], method |-> s[7]]
         ELSE Unsigned(s[2])

\* toHex that loses the signed bit of the version byte
toHex_unsignedVersion(e) ==
    IF e.signed
    THEN <<ExtrinsicVersion, e.signer, e.nonce, e.genesisHash, e.blockHash,
           e.runtimeVersion, e.method>>
    ELSE <<ExtrinsicVersion, e.method>>

\* extrinsic.toHex()
toHex(e) ==
    IF e.signed
    THEN <<SignedBit + ExtrinsicVersion, e.signer, e.nonce, e.genesisHash,
           e.blockHash, e.runtimeVersion, e.method>>
    ELSE <<ExtrinsicVersion, e.method>>

\* extrinsic.isSigned
isSigned(e) == e.signed

\* extrinsic.sign(pair, options): the call is kept, the signature block is
\* the signer and what it signed over.
sign(e, pair, options) ==
    [signed |-> TRUE, signer |-> pair, nonce |-> options.nonce,
     genesisHash |-> options.genesisHash, blockHash |-> options.blockHash,
     runtimeVersion |-> options.runtimeVersion, method |-> e.method]

\* serialised payloads a caller hands to signTx / verifySignature
UnsignedPayloads == {<<>>, toHex(Unsigned(1))}
ForeignSigned ==
    toHex(sign(Unsigned(1), OtherPair,
               [nonce |-> 0, genesisHash |-> GenesisHash, blockHash |-> 0,
                runtimeVersion |-> RuntimeVersion]))
Payloads == UnsignedPayloads \cup {ForeignSigned}

(* --------------------------- EmbeddedWallet --------------------------- *)
NoOptions == [nonce |-> -1, genesisHash |-> -1, blockHash |-> -1,
              runtimeVersion |-> -1]
NoCall ==
    [pc |-> "idle", tx |-> <<>>, registry |-> Undefined, nonce |-> -1,
     blockHash |-> -1, requests |-> 0, signs |-> 0, options |-> NoOptions,
     signedWith |-> Undefined, result |-> <<>>, error |-> "none"]

\* the error signTx and verifySignature throw on an undefined _api
NotInitialised == "Polkadot API not initialised."

\* isInitialized(): this._api !== undefined
isInitialized == api # Undefined

\* init that assigns _api before the ApiPromise is ready
init_assignsBeforeReady(i) ==
    /\ ops < MaxOps
    /\ initPc[i] = "idle"
    /\ \A j \in Inits : j < i => initPc[j] # "idle"
    /\ initPc' = [initPc EXCEPT ![i] = "creating"]
    /\ api' = i
    /\ ops' = ops + 1
    /\ UNCHANGED <<connected, disconnected, call, verified, chainVars,
                   browserVars, keyVars, extVars, coreVars>>

\* init(), up to the await: ApiPromise.create({provider: this._wsProvider})
init(i) ==
    /\ ops < MaxOps
    /\ initPc[i] = "idle"
    /\ \A j \in Inits : j < i => initPc[j] # "idle"
    /\ initPc' = [initPc EXCEPT ![i] = "creating"]
    /\ ops' = ops + 1
    /\ UNCHANGED <<api, connected, disconnected, call, verified, chainVars,
                   browserVars, keyVars, extVars, coreVars>>

\* a resolved init that adds the pair to the keyring anew, under another key
init_resolve_newPair(i) ==
    /\ initPc[i] = "creating"
    /\ initPc' = [initPc EXCEPT ![i] = "resolved"]
    /\ api' = i
    /\ connected' = TRUE
    /\ keyringPair' = OtherPair
    /\ UNCHANGED <<ops, disconnected, call, verified, chainVars, browserVars,
                   built, extVars, coreVars>>

\* ApiPromise.create resolved (the API is connected and ready):
\* this._api = <the new ApiPromise>
init_resolve(i) ==
    /\ initPc[i] = "creating"
    /\ initPc' = [initPc EXCEPT ![i] = "resolved"]
    /\ api' = i
    /\ connected' = TRUE
    /\ UNCHANGED <<ops, disconnected, call, verified, chainVars, browserVars,
                   keyVars, extVars, coreVars>>

\* ApiPromise.create rejected: init() rejects, _api is not assigned
init_reject(i) ==
    /\ initPc[i] = "creating"
    /\ initPc' = [initPc EXCEPT ![i] = "rejected"]
    /\ UNCHANGED <<ops, api, connected, disconnected, call, verified,
                   chainVars, browserVars, keyVars, extVars, coreVars>>

\* disconnect(): the connection the handle owns is torn down
disconnect ==
    /\ ops < MaxOps
    /\ api # Undefined
    /\ ~disconnected
    /\ disconnected' = TRUE
    /\ connected' = FALSE
    /\ ops' = ops + 1
    /\ UNCHANGED <<api, initPc, call, verified, chainVars, browserVars,
                   keyVars, extVars, coreVars>>

\* signTx without the `_api === undefined` guard
signTx_unguarded(c, tx) ==
    /\ ops < MaxOps
    /\ call[c].pc = "idle"
    /\ \A d \in Calls : d < c => call[d].pc # "idle"
    /\ call' = [call EXCEPT ![c].pc = "accountNextIndex", ![c].tx = tx,
                            ![c].registry = api,
                            ![c].requests = call[c].requests + 1]
    /\ ops' = ops + 1
    /\ UNCHANGED <<api, initPc, connected, disconnected, verified, chainVars,
                   browserVars, keyVars, extVars, coreVars>>

\* signTx that waits until no other signTx call of the wallet is in flight
signTx_serialized(c, tx) ==
    /\ ops < MaxOps
    /\ call[c].pc = "idle"
    /\ \A d \in Calls : d < c => call[d].pc # "idle"
    /\ \A d \in Calls : call[d].pc \notin {"accountNextIndex", "getFinalizedHead"}
    /\ IF api = Undefined
       THEN call' = [call EXCEPT ![c].pc = "rejected", ![c].tx = tx,
                                 ![c].error = NotInitialised]
       ELSE call' = [call EXCEPT ![c].pc = "accountNextIndex", ![c].tx = tx,
                                 ![c].registry = api,
                                 ![c].requests = call[c].requests + 1]
    /\ ops' = ops + 1
    /\ UNCHANGED <<api, initPc, connected, disconnected, verified, chainVars,
                   browserVars, keyVars, extVars, coreVars>>

\* signTx(serialisedTx), up to the first await: the guard, the decoding of
\* the payload with the registry of _api, the accountNextIndex request.
signTx(c, tx) ==
    /\ ops < MaxOps
    /\ call[c].pc = "idle"
    /\ \A d \in Calls : d < c => call[d].pc # "idle"
    /\ IF api = Undefined
       THEN call' = [call EXCEPT ![c].pc = "rejected", ![c].tx = tx,
                                 ![c].error = NotInitialised]
       ELSE call' = [call EXCEPT ![c].pc = "accountNextIndex", ![c].tx = tx,
                                 ![c].registry = api,
                                 ![c].requests = call[c].requests + 1]
    /\ ops' = ops + 1
    /\ UNCHANGED <<api, initPc, connected, disconnected, verified, chainVars,
                   browserVars, keyVars, extVars, coreVars>>

\* the payload is signed as soon as the nonce is there, before the
\* finalized head is fetched
signTx_nonce_signsEarly(c) ==
    /\ call[c].pc = "accountNextIndex"
    /\ connected
    /\ call' = [call EXCEPT ![c].pc = "getFinalizedHead",
                            ![c].nonce = nextIndex,
                            ![c].signs = call[c].signs + 1,
                            ![c].requests = call[c].requests + 1]
    /\ UNCHANGED <<ops, api, initPc, connected, disconnected, verified,
                   chainVars, browserVars, keyVars, extVars, coreVars>>

\* the nonce is fetched by the first call of the wallet and kept for the
\* later ones
signTx_nonce_kept(c) ==
    /\ call[c].pc = "accountNextIndex"
    /\ connected
    /\ call' = [call EXCEPT ![c].pc = "getFinalizedHead",
                            ![c].nonce = IF c > 1 /\ call[1].nonce >= 0
                                         THEN call[1].nonce ELSE nextIndex,
                            ![c].requests = call[c].requests + 1]
    /\ UNCHANGED <<ops, api, initPc, connected, disconnected, verified,
                   chainVars, browserVars, keyVars, extVars, coreVars>>

\* accountNextIndex answered: nonce is bound, getFinalizedHead is requested
signTx_nonce(c) ==
    /\ call[c].pc = "accountNextIndex"
    /\ connected
    /\ call' = [call EXCEPT ![c].pc = "getFinalizedHead",
                            ![c].nonce = nextIndex,
                            ![c].requests = call[c].requests + 1]
    /\ UNCHANGED <<ops, api, initPc, connected, disconnected, verified,
                   chainVars, browserVars, keyVars, extVars, coreVars>>

\* options built from the nonce the first signTx call fetched
signOptions_cachedNonce(c, blockHash) ==
    [nonce |-> IF call[1].nonce >= 0 THEN call[1].nonce ELSE call[c].nonce,
     genesisHash |-> GenesisHash, blockHash |-> blockHash,
     runtimeVersion |-> RuntimeVersion]

\* the options object handed to extrinsic.sign
signOptions(c, blockHash) ==
    [nonce |-> call[c].nonce, genesisHash |-> GenesisHash,
     blockHash |-> blockHash, runtimeVersion |-> RuntimeVersion]

\* getFinalizedHead answered: the extrinsic is signed with the keyring pair
\* and returned as hex
signTx_head(c) ==
    /\ call[c].pc = "getFinalizedHead"
    /\ connected
    /\ LET options == signOptions(c, head)
           signed == sign(GenericExtrinsic(call[c].tx), keyringPair, options)
       IN call' = [call EXCEPT ![c].pc = "resolved",
                               ![c].blockHash = head,
                               ![c].options = options,
                               ![c].signs = call[c].signs + 1,
                               ![c].signedWith = api,
                               ![c].result = toHex(signed)]
    /\ UNCHANGED <<ops, api, initPc, connected, disconnected, verified,
                   chainVars, browserVars, keyVars, extVars, coreVars>>

\* a failed getFinalizedHead swallowed: the payload is signed without it
signTx_fail_partial(c) ==
    /\ call[c].pc \in {"accountNextIndex", "getFinalizedHead"}
    /\ IF call[c].pc = "getFinalizedHead"
       THEN LET options == signOptions(c, 0)
                signed == sign(GenericExtrinsic(call[c].tx), keyringPair, options)
            IN call' = [call EXCEPT ![c].pc = "resolved",
                                    ![c].options = options,
                                    ![c].signs = call[c].signs + 1,
                                    ![c].signedWith = api,
                                    ![c].result = toHex(signed),
                                    ![c].error = "transport"]
       ELSE call' = [call EXCEPT ![c].pc = "rejected",
                                 ![c].error = "transport"]
    /\ UNCHANGED <<ops, api, initPc, connected, disconnected, verified,
                   chainVars, browserVars, keyVars, extVars, coreVars>>

\* a failed request is issued once more instead of rejecting the call
signTx_fail_retry(c) ==
    /\ call[c].pc \in {"accountNextIndex", "getFinalizedHead"}
    /\ call' = IF call[c].requests < 3
               THEN [call EXCEPT ![c].requests = call[c].requests + 1]
               ELSE [call EXCEPT ![c] = [NoCall EXCEPT
                                             !.pc = "rejected",
                                             !.tx = call[c].tx,
                                             !.requests = call[c].requests,
                                             !.error = "transport"]]
    /\ UNCHANGED <<ops, api, initPc, connected, disconnected, verified,
                   chainVars, browserVars, keyVars, extVars, coreVars>>

\* the rejection of a failed request is held back until the other signTx
\* calls of the wallet have settled
signTx_fail_waitsForOthers(c) ==
    /\ call[c].pc \in {"accountNextIndex", "getFinalizedHead"}
    /\ \A d \in Calls \ {c} :
           call[d].pc \notin {"accountNextIndex", "getFinalizedHead"}
    /\ call' = [call EXCEPT ![c] = [NoCall EXCEPT !.pc = "rejected",
                                               !.tx = call[c].tx,
                                               !.requests = call[c].requests,
                                               !.error = "transport"]]
    /\ UNCHANGED <<ops, api, initPc, connected, disconnected, verified,
                   chainVars, browserVars, keyVars, extVars, coreVars>>

\* either awaited request failed: the rejection propagates out of signTx,
\* whose locals are dropped
signTx_fail(c) ==
    /\ call[c].pc \in {"accountNextIndex", "getFinalizedHead"}
    /\ call' = [call EXCEPT ![c] = [NoCall EXCEPT !.pc = "rejected",
                                               !.tx = call[c].tx,
                                               !.requests = call[c].requests,
                                               !.error = "transport"]]
    /\ UNCHANGED <<ops, api, initPc, connected, disconnected, verified,
                   chainVars, browserVars, keyVars, extVars, coreVars>>

\* payloads a caller can pass on: the fixed ones and what signTx returned
Resolved == {c \in Calls : call[c].pc = "resolved"}
Known == Payloads \cup {call[c].result : c \in Resolved}

\* verifySignature that accepts only what the wallet's own pair signed
verifySignature_ownPairOnly(s) ==
    /\ ops < MaxOps
    /\ verified' =
         IF api = Undefined
         THEN [tx |-> s, outcome |-> NotInitialised]
         ELSE [tx |-> s,
               outcome |-> IF /\ isSigned(GenericExtrinsic(s))
                              /\ GenericExtrinsic(s).signer = keyringPair
                           THEN "true" ELSE "false"]
    /\ ops' = ops + 1
    /\ UNCHANGED <<api, initPc, connected, disconnected, call, chainVars,
                   browserVars, keyVars, extVars, coreVars>>

\* verifySignature(serialisedTx)
verifySignature(s) ==
    /\ ops < MaxOps
    /\ verified' =
         IF api = Undefined
         THEN [tx |-> s, outcome |-> NotInitialised]
         ELSE [tx |-> s,
               outcome |-> IF isSigned(GenericExtrinsic(s)) THEN "true"
                           ELSE "false"]
    /\ ops' = ops + 1
    /\ UNCHANGED <<api, initPc, connected, disconnected, call, chainVars,
                   browserVars, keyVars, extVars, coreVars>>

(* ------------------------------- chain -------------------------------- *)
\* the transaction signed by call c is submitted by its caller and included:
\* the node takes it only with the account's next index
Include(c) ==
    /\ call[c].pc = "resolved"
    /\ c \notin included
    /\ call[c].nonce = nextIndex
    /\ nextIndex < MaxNonce
    /\ nextIndex' = nextIndex + 1
    /\ head' = head + 1
    /\ included' = included \cup {c}
    /\ UNCHANGED <<ops, embeddedVars, browserVars, keyVars, extVars,
                   coreVars>>

(* --------------------------- BrowserWallet ---------------------------- *)
Names == {"x", "y"}
Abis == {"abi1", "abi2", "not an abi"}
Addresses == {"addr1", "addr2"}
NoLoads == [recent |-> <<>>, last |-> "none"]

\* new ContractPromise(this.api, abi, address): the handle, when the
\* interface description parses
Parses(abi) == abi \in {"abi1", "abi2"}
ContractPromise(abi, address) == [abi |-> abi, address |-> address]

\* obj[name] = value / map.set(name, value)
Put(map, name, value) ==
    [n \in DOMAIN map \cup {name} |-> IF n = name THEN value ELSE map[n]]

\* the record kept of a loadContract call whose description parsed
Loaded(name, abi, address) ==
    [recent |->
        Put(loaded.recent, name,
            [abi |-> abi, address |-> address,
             loads |-> IF name \in DOMAIN loaded.recent
                       THEN loaded.recent[name].loads + 1 ELSE 1]),
     last |-> "returned"]

\* loadContract that keeps the entry a name already has and throws
loadContract_rejectDuplicate(name, abi, address) ==
    /\ contracts' = IF name \in DOMAIN contracts THEN contracts
                    ELSE Put(contracts, name, ContractPromise(abi, address))
    /\ loaded' = Loaded(name, abi, address)

\* loadContract that starts the registry anew with the loaded contract
loadContract_resetsRegistry(name, abi, address) ==
    /\ contracts' = Put(<<>>, name, ContractPromise(abi, address))
    /\ loaded' = Loaded(name, abi, address)

\* BrowserWallet.loadContract: this.contracts[name] = contract
BrowserWallet_loadContract(name, abi, address) ==
    /\ contracts' = Put(contracts, name, ContractPromise(abi, address))
    /\ loaded' = Loaded(name, abi, address)

\* EmbeddedWallet.loadContract: this.contracts.set(name, contract)
EmbeddedWallet_loadContract(name, abi, address) ==
    /\ contracts' = Put(contracts, name, ContractPromise(abi, address))
    /\ loaded' = Loaded(name, abi, address)

\* loadContract(name, abi, address) of the wallet at hand; the constructor
\* of ContractPromise throws on a description that does not parse
loadContract(name, abi, address) ==
    /\ ops < MaxOps
    /\ ops' = ops + 1
    /\ IF ~Parses(abi)
       THEN /\ loaded' = [loaded EXCEPT !.last = "threw"]
            /\ UNCHANGED contracts
       ELSE IF variant = "BrowserWallet"
            THEN BrowserWallet_loadContract(name, abi, address)
            ELSE EmbeddedWallet_loadContract(name, abi, address)
    /\ UNCHANGED <<variant, qry, atx, pool, embeddedVars, chainVars, keyVars,
                   extVars, coreVars>>

\* what the promise handed to query settles to: a ContractCallOutcome
\* {result, output} or a rejection
Outcomes ==
    {[settled |-> "fulfilled", isOk |-> TRUE, asErr |-> "none", output |-> "value"],
     [settled |-> "fulfilled", isOk |-> TRUE, asErr |-> "none", output |-> "null"],
     [settled |-> "fulfilled", isOk |-> FALSE, asErr |-> "ContractReverted", output |-> "null"],
     [settled |-> "fulfilled", isOk |-> FALSE, asErr |-> "ContractTrapped", output |-> "null"],
     [settled |-> "rejected", isOk |-> FALSE, asErr |-> "none", output |-> "disconnected"]}
NoOutcome == [settled |-> "pending", isOk |-> FALSE, asErr |-> "none", output |-> "null"]
NoQuery == [pc |-> "idle", outcome |-> NoOutcome, value |-> "none"]

\* result.asErr: the Err value; the getter throws on an Ok result
asErr(o) == IF o.isOk THEN "Cannot extract Err value from Ok" ELSE o.asErr

\* query(query), up to `await query`
query(k) ==
    /\ variant = "BrowserWallet"
    /\ ops < MaxOps
    /\ qry[k].pc = "idle"
    /\ \A j \in Queries : j < k => qry[j].pc # "idle"
    /\ qry' = [qry EXCEPT ![k].pc = "awaiting"]
    /\ ops' = ops + 1
    /\ UNCHANGED <<variant, contracts, loaded, atx, pool, embeddedVars,
                   chainVars, keyVars, extVars, coreVars>>

\* a continuation that catches every failure and throws one error for all
query_continue_oneError(k, o) ==
    /\ qry[k].pc = "awaiting"
    /\ qry' = [qry EXCEPT ![k] =
          IF o.settled = "fulfilled" /\ o.isOk /\ o.output # "null"
          THEN [pc |-> "resolved", outcome |-> o, value |-> o.output]
          ELSE [pc |-> "rejected", outcome |-> o, value |-> "query failed"]]

\* the continuation of query once the promise has settled to o
query_continue(k, o) ==
    /\ qry[k].pc = "awaiting"
    /\ qry' = [qry EXCEPT ![k] =
          IF o.settled = "rejected"
          THEN [pc |-> "rejected", outcome |-> o, value |-> o.output]
          ELSE IF o.isOk /\ o.output # "null"
               THEN [pc |-> "resolved", outcome |-> o, value |-> o.output]
               ELSE [pc |-> "rejected", outcome |-> o, value |-> asErr(o)]]

\* a query that runs the call as a transaction of the account
query_settle_submitting(k, o) ==
    /\ query_continue(k, o)
    /\ nextIndex' = nextIndex + 1
    /\ UNCHANGED <<ops, variant, contracts, loaded, atx, pool, embeddedVars,
                   head, included, keyVars, extVars, coreVars>>

\* the promise awaited by query settles
query_settle(k, o) ==
    /\ query_continue(k, o)
    /\ UNCHANGED <<ops, variant, contracts, loaded, atx, pool, embeddedVars,
                   chainVars, keyVars, extVars, coreVars>>

\* the queries whose dry run returned the Err branch
ErrQueries ==
    {k \in Queries : /\ qry[k].pc = "rejected"
                     /\ qry[k].outcome.settled = "fulfilled"
                     /\ ~qry[k].outcome.isOk}

\* awaitTx that refuses to submit once a dry run has returned Err
awaitTx_blockedAfterErr(c) ==
    /\ variant = "BrowserWallet"
    /\ ErrQueries = {}
    /\ ops < MaxOps
    /\ atx[c].pc = "idle"
    /\ \A d \in Calls : d < c => atx[d].pc # "idle"
    /\ atx' = [atx EXCEPT ![c].pc = "signingInfo"]
    /\ ops' = ops + 1
    /\ UNCHANGED <<variant, contracts, loaded, qry, pool, embeddedVars,
                   chainVars, keyVars, extVars, coreVars>>

NoAwait == [pc |-> "idle", nonce |-> -1, error |-> "none"]

\* awaitTx(tx): tx.signAndSend(this.account.address), up to the request for
\* the signing info (the account's next index)
awaitTx(c) ==
    /\ variant = "BrowserWallet"
    /\ ops < MaxOps
    /\ atx[c].pc = "idle"
    /\ \A d \in Calls : d < c => atx[d].pc # "idle"
    /\ atx' = [atx EXCEPT ![c].pc = "signingInfo"]
    /\ ops' = ops + 1
    /\ UNCHANGED <<variant, contracts, loaded, qry, pool, embeddedVars,
                   chainVars, keyVars, extVars, coreVars>>

\* signing info answered: the nonce is bound and the payload goes to the
\* signer set on the api
awaitTx_nonce(c) ==
    /\ atx[c].pc = "signingInfo"
    /\ atx' = [atx EXCEPT ![c].pc = "signPayload", ![c].nonce = nextIndex]
    /\ UNCHANGED <<ops, variant, contracts, loaded, qry, pool, embeddedVars,
                   chainVars, keyVars, extVars, coreVars>>

\* the signer returned the signature: the extrinsic is submitted
awaitTx_signed(c) ==
    /\ atx[c].pc = "signPayload"
    /\ atx' = [atx EXCEPT ![c].pc = "submitExtrinsic"]
    /\ UNCHANGED <<ops, variant, contracts, loaded, qry, pool, embeddedVars,
                   chainVars, keyVars, extVars, coreVars>>

\* the node took the extrinsic into its pool: signAndSend, called without a
\* status callback, resolves with the transaction hash
awaitTx_submitted(c) ==
    /\ atx[c].pc = "submitExtrinsic"
    /\ atx[c].nonce = nextIndex
    /\ nextIndex < MaxNonce
    /\ atx' = [atx EXCEPT ![c].pc = "resolved"]
    /\ pool' = pool \cup {c}
    /\ nextIndex' = nextIndex + 1
    /\ UNCHANGED <<ops, variant, contracts, loaded, qry, embeddedVars, head,
                   included, keyVars, extVars, coreVars>>

\* a step of signAndSend rejected (request failed, the user declined, the
\* node refused the extrinsic): awaitTx rejects
awaitTx_fail(c) ==
    /\ atx[c].pc \in {"signingInfo", "signPayload", "submitExtrinsic"}
    /\ atx' = [atx EXCEPT ![c] = [NoAwait EXCEPT !.pc = "rejected",
                                             !.error = "rejected"]]
    /\ UNCHANGED <<ops, variant, contracts, loaded, qry, pool, embeddedVars,
                   chainVars, keyVars, extVars, coreVars>>

\* the chain includes the pool transaction that carries the account's
\* next nonce in a block
IncludeFromPool(c) ==
    /\ c \in pool
    /\ atx[c].nonce = Cardinality(included)
    /\ pool' = pool \ {c}
    /\ included' = included \cup {c}
    /\ head' = head + 1
    /\ UNCHANGED <<ops, variant, contracts, loaded, qry, atx, embeddedVars,
                   nextIndex, keyVars, extVars, coreVars>>

(* ------------------- buildDerivation and the keyring ------------------ *)
\* strings are sequences of characters; an optional string argument is
\* absent (undefined) or present with its characters
Absent == [present |-> FALSE, chars |-> <<>>]
Str(chars) == [present |-> TRUE, chars |-> chars]

\* `if (segment)`: undefined and the empty string are falsy
Truthy(x) == x.present /\ Len(x.chars) > 0

\* buildDerivation that appends every segment that was passed, empty or not
buildDerivation_anyPresent(phrase, hardDerivation, softDerivation) ==
    LET r == phrase
        rh == IF hardDerivation.present
              THEN r \o <<"/", "/">> \o hardDerivation.chars ELSE r
    IN IF softDerivation.present
       THEN rh \o <<"/">> \o softDerivation.chars ELSE rh

\* buildDerivation that leaves the hard segment out
buildDerivation_softOnly(phrase, hardDerivation, softDerivation) ==
    IF Truthy(softDerivation)
    THEN phrase \o <<"/">> \o softDerivation.chars ELSE phrase

\* buildDerivation(phrase, hardDerivation, softDerivation)
buildDerivation(phrase, hardDerivation, softDerivation) ==
    LET r == phrase
        rh == IF Truthy(hardDerivation)
              THEN r \o <<"/", "/">> \o hardDerivation.chars ELSE r
    IN IF Truthy(softDerivation)
       THEN rh \o <<"/">> \o softDerivation.chars ELSE rh

\* the characters of s before its first "/"
RECURSIVE UpToSlash(_)
UpToSlash(s) ==
    IF Len(s) = 0 \/ Head(s) = "/" THEN <<>>
    ELSE <<Head(s)>> \o UpToSlash(Tail(s))

\* the junctions of a derivation path: "//name" is a hard junction, "/name"
\* a soft one
RECURSIVE Junctions(_)
Junctions(s) ==
    IF Len(s) = 0 THEN <<>>
    ELSE LET hard == Len(s) >= 2 /\ s[2] = "/"
             rest == IF hard THEN SubSeq(s, 3, Len(s)) ELSE Tail(s)
             name == UpToSlash(rest)
         IN <<[hard |-> hard, name |-> name]>>
              \o Junctions(SubSeq(rest, Len(name) + 1, Len(rest)))

\* new Keyring({type}).addFromUri(suri): the pair derived from the phrase
\* of the suri along the junctions of its path
addFromUri(type, suri) ==
    LET phrase == UpToSlash(suri)
    IN [type |-> type, phrase |-> phrase,
        path |-> Junctions(SubSeq(suri, Len(phrase) + 1, Len(suri)))]

KeyTypes == {"sr25519", "ed25519"}
Phrases == {<<"p">>, <<"q">>}
HardDerivations == {Absent, Str(<<>>), Str(<<"a">>), Str(<<"a", "/", "b">>)}
SoftDerivations == {Absent, Str(<<>>), Str(<<"b">>)}
Apis == {"api1", "api2"}
KeyringOptions ==
    [api : Apis, keyType : KeyTypes, phrase : Phrases,
     hardDerivation : HardDerivations, softDerivation : SoftDerivations]

Handles == {"first", "second"}
NotBuilt == [constructed |-> FALSE, options |-> <<>>, suri |-> <<>>,
             account |-> <<>>, api |-> "none"]

\* a constructor whose account carries the address prefix of the chain
\* behind options.api
EmbeddedWallet_new_chainPrefixed(h, options) ==
    /\ ~built[h].constructed
    /\ h = "second" => built["first"].constructed
    /\ LET suri == buildDerivation(options.phrase, options.hardDerivation,
                                   options.softDerivation)
       IN built' = [built EXCEPT ![h] =
              [constructed |-> TRUE, options |-> options, suri |-> suri,
               account |-> <<addFromUri(options.keyType, suri), options.api>>,
               api |-> options.api]]
    /\ UNCHANGED <<ops, embeddedVars, chainVars, browserVars, keyringPair,
                   extVars, coreVars>>

\* new EmbeddedWallet(options): a keyring of its own, the pair added from
\* the derivation string, the api as passed
EmbeddedWallet_new(h, options) ==
    /\ ~built[h].constructed
    /\ h = "second" => built["first"].constructed
    /\ LET suri == buildDerivation(options.phrase, options.hardDerivation,
                                   options.softDerivation)
       IN built' = [built EXCEPT ![h] =
              [constructed |-> TRUE, options |-> options, suri |-> suri,
               account |-> addFromUri(options.keyType, suri),
               api |-> options.api]]
    /\ UNCHANGED <<ops, embeddedVars, chainVars, browserVars, keyringPair,
                   extVars, coreVars>>

(* ------------- BrowserWallet over the injected extensions ------------- *)
\* an Error object as thrown
Error(message) == [name |-> "Error", message |-> message]
NoError == [name |-> "none", message |-> "none"]

\* the extensions a page can have: name, version, the accounts the
\* extension lists, whether its signer has signRaw
Talismans ==
    [name : {"talisman"}, version : {"1.0"},
     accounts : {<<>>, <<"alice", "bob">>, <<"bob", "alice">>},
     signRaw : BOOLEAN]
PolkadotJs ==
    [name |-> "polkadot-js", version |-> "0.44", accounts |-> <<"alice">>,
     signRaw |-> TRUE]
Pages ==
    {<<>>} \cup {<<t>> : t \in Talismans}
           \cup {<<t, PolkadotJs>> : t \in Talismans}
           \cup {<<PolkadotJs, t>> : t \in Talismans}
WalletNames == {"talisman", "polkadot-js"}
OriginNames == {"mesh-sdk", "test-app"}
SignPayloads == {"hello", ""}

\* what the promise of web3Enable(originName) resolves to: the injected
\* extensions, in the order of the page
RECURSIVE web3Enable(_)
web3Enable(exts) ==
    IF Len(exts) = 0 THEN <<>>
    ELSE <<[name |-> Head(exts).name, version |-> Head(exts).version]>>
           \o web3Enable(Tail(exts))

\* the accounts of one extension, each with its source
RECURSIVE mapAccounts(_, _)
mapAccounts(source, list) ==
    IF Len(list) = 0 THEN <<>>
    ELSE <<[address |-> Head(list), source |-> source]>>
           \o mapAccounts(source, Tail(list))

\* web3Accounts({extensions}): the accounts of the enabled extensions whose
\* name is in `extensions`, extension by extension
RECURSIVE web3Accounts(_, _)
web3Accounts(exts, extensions) ==
    IF Len(exts) = 0 THEN <<>>
    ELSE (IF Head(exts).name \in extensions
          THEN mapAccounts(Head(exts).name, Head(exts).accounts)
          ELSE <<>>) \o web3Accounts(Tail(exts), extensions)

\* accounts.find(account => account.address equals address)
RECURSIVE find(_, _)
find(accounts, address) ==
    IF Len(accounts) = 0 THEN [address |-> "none", source |-> "none"]
    ELSE IF Head(accounts).address = address THEN Head(accounts)
         ELSE find(Tail(accounts), address)

\* web3FromSource(source).signer
signerOf(source) ==
    LET found == CHOOSE i \in 1..Len(injectedWeb3) :
                     injectedWeb3[i].name = source
    IN [source |-> source, signRaw |-> injectedWeb3[found].signRaw]

\* web3FromAddress(address).signer: the signer of the source of the first
\* account of all enabled extensions that has the address
web3FromAddress(address) ==
    signerOf(find(web3Accounts(injectedWeb3, WalletNames), address).source)

NoDiscovery ==
    [pc |-> "idle", originName |-> "none", calls |-> 0, result |-> <<>>,
     error |-> NoError]

\* getAvailableWallets(originName), up to `await web3Enable(originName)`
getAvailableWallets(originName) ==
    /\ ops < MaxOps
    /\ discovery.pc # "web3Enable"
    /\ discovery' = [NoDiscovery EXCEPT !.pc = "web3Enable",
                                        !.originName = originName,
                                        !.calls = 1]
    /\ web3EnablePromise' = TRUE
    /\ ops' = ops + 1
    /\ UNCHANGED <<embeddedVars, chainVars, browserVars, keyVars,
                   injectedWeb3, enabling, connections, wallets, signing,
                   coreVars>>

\* a discovery that asks the page once more when it found no extension
getAvailableWallets_retry ==
    /\ discovery.pc = "web3Enable"
    /\ LET extensions == web3Enable(injectedWeb3)
       IN discovery' =
            IF Len(extensions) = 0
            THEN IF discovery.calls < 2
                 THEN [discovery EXCEPT !.calls = discovery.calls + 1]
                 ELSE [discovery EXCEPT !.pc = "rejected",
                                        !.error = Error("No extension installed")]
            ELSE [discovery EXCEPT !.pc = "resolved", !.result = extensions]
    /\ UNCHANGED <<ops, embeddedVars, chainVars, browserVars, keyVars,
                   injectedWeb3, web3EnablePromise, enabling, connections,
                   wallets, signing, coreVars>>

\* web3Enable resolved: throw on an empty list, return the list otherwise
getAvailableWallets_enabled ==
    /\ discovery.pc = "web3Enable"
    /\ LET extensions == web3Enable(injectedWeb3)
       IN discovery' =
            IF Len(extensions) = 0
            THEN [discovery EXCEPT !.pc = "rejected",
                                   !.error = Error("No extension installed")]
            ELSE [discovery EXCEPT !.pc = "resolved", !.result = extensions]
    /\ UNCHANGED <<ops, embeddedVars, chainVars, browserVars, keyVars,
                   injectedWeb3, web3EnablePromise, enabling, connections,
                   wallets, signing, coreVars>>

\* JSON.stringify(error): an Error object has no enumerable property of its
\* own, so it serialises to "{}"; a thrown string serialises to itself quoted
JSON_stringify(error) ==
    IF error.name = "Error" THEN "{}" ELSE <<"\"", error.message, "\"">>

\* the Error the catch block of enable throws for what it caught
EnableError(error) ==
    Error(<<"[BrowserWallet] An error occurred during enable: ",
            JSON_stringify(error), ".">>)

\* what the steps of enable throw
NeedsWeb3Enable ==
    Error("web3Accounts: web3Enable(originName) needs to be called before web3Accounts")
NoAccountsFound == Error("No accounts found")
ApiCreateFailed == Error("Unable to initialize the API")
NoInjector == Error("web3FromAddress: Unable to find injected address")

NoAccount == [address |-> "none", source |-> "none"]
NoEnable ==
    [pc |-> "idle", walletName |-> "none", id |-> 0, listed |-> FALSE,
     accounts |-> <<>>, account |-> NoAccount, api |-> 0, wallet |-> 0,
     cause |-> NoError, error |-> NoError]

\* the catch block of enable: the call rejects with the wrapping Error
enable_catch(call_, error) ==
    [call_ EXCEPT !.pc = "rejected", !.cause = error,
                  !.error = EnableError(error)]

\* enable(walletName, options), up to `await web3Accounts(...)`, which
\* throws unless web3Enable has been called before
enable(walletName) ==
    /\ ops < MaxOps
    /\ enabling.pc \notin {"web3Accounts", "initPolkadotApi", "web3FromAddress"}
    /\ LET started == [NoEnable EXCEPT !.pc = "web3Accounts",
                                       !.walletName = walletName,
                                       !.id = ops + 1]
       IN enabling' = IF web3EnablePromise THEN started
                      ELSE enable_catch(started, NeedsWeb3Enable)
    /\ ops' = ops + 1
    /\ UNCHANGED <<embeddedVars, chainVars, browserVars, keyVars,
                   injectedWeb3, web3EnablePromise, discovery, connections,
                   wallets, signing, coreVars>>

\* the continuation that selects the last account of the list
enable_accounts_lastAccount ==
    /\ enabling.pc = "web3Accounts"
    /\ LET accounts == web3Accounts(injectedWeb3, {enabling.walletName})
           listed == [enabling EXCEPT !.listed = TRUE, !.accounts = accounts]
       IN IF Len(accounts) = 0
          THEN /\ enabling' = enable_catch(listed, NoAccountsFound)
               /\ UNCHANGED connections
          ELSE /\ enabling' = [listed EXCEPT !.pc = "initPolkadotApi",
                                             !.account = accounts[Len(accounts)]]
               /\ connections' = connections \cup {enabling.id}
    /\ UNCHANGED <<ops, embeddedVars, chainVars, browserVars, keyVars,
                   injectedWeb3, web3EnablePromise, discovery, wallets,
                   signing, coreVars>>

\* the account list arrived: throw on an empty list; otherwise take the
\* first account and call initPolkadotApi, which opens a WsProvider and
\* creates the ApiPromise over it
enable_accounts ==
    /\ enabling.pc = "web3Accounts"
    /\ LET accounts == web3Accounts(injectedWeb3, {enabling.walletName})
           listed == [enabling EXCEPT !.listed = TRUE, !.accounts = accounts]
       IN IF Len(accounts) = 0
          THEN /\ enabling' = enable_catch(listed, NoAccountsFound)
               /\ UNCHANGED connections
          ELSE /\ enabling' = [listed EXCEPT !.pc = "initPolkadotApi",
                                             !.account = accounts[1]]
               /\ connections' = connections \cup {enabling.id}
    /\ UNCHANGED <<ops, embeddedVars, chainVars, browserVars, keyVars,
                   injectedWeb3, web3EnablePromise, discovery, wallets,
                   signing, coreVars>>

\* ApiPromise.create resolved: web3FromAddress(account.address) is called
enable_api ==
    /\ enabling.pc = "initPolkadotApi"
    /\ enabling' = [enabling EXCEPT !.pc = "web3FromAddress",
                                    !.api = enabling.id]
    /\ UNCHANGED <<ops, embeddedVars, chainVars, browserVars, keyVars,
                   injectedWeb3, web3EnablePromise, discovery, connections,
                   wallets, signing, coreVars>>

\* ApiPromise.create rejected
enable_api_reject ==
    /\ enabling.pc = "initPolkadotApi"
    /\ enabling' = enable_catch(enabling, ApiCreateFailed)
    /\ UNCHANGED <<ops, embeddedVars, chainVars, browserVars, keyVars,
                   injectedWeb3, web3EnablePromise, discovery, connections,
                   wallets, signing, coreVars>>

\* the signer of an ApiPromise on which setSigner was never called and that
\* was created without a signer option
NoSigner == [source |-> "none", signRaw |-> FALSE]

\* new BrowserWallet(api, account, signer): super(api, account) and the
\* property `signer`; the api is left as initPolkadotApi created it
BrowserWallet_new(api_, account, signer) ==
    [api |-> api_, account |-> account, signer |-> signer,
     apiSigner |-> NoSigner]

\* the injector was found: new BrowserWallet(api, account, injector.signer)
enable_injector ==
    /\ enabling.pc = "web3FromAddress"
    /\ wallets' = Append(wallets,
                         BrowserWallet_new(
                             enabling.api, enabling.account,
                             web3FromAddress(enabling.account.address)))
    /\ enabling' = [enabling EXCEPT !.pc = "resolved",
                                    !.wallet = Len(wallets) + 1]
    /\ UNCHANGED <<ops, embeddedVars, chainVars, browserVars, keyVars,
                   injectedWeb3, web3EnablePromise, discovery, connections,
                   signing, coreVars>>

\* web3FromAddress rejected (the extension did not answer with the account)
enable_injector_reject ==
    /\ enabling.pc = "web3FromAddress"
    /\ enabling' = enable_catch(enabling, NoInjector)
    /\ UNCHANGED <<ops, embeddedVars, chainVars, browserVars, keyVars,
                   injectedWeb3, web3EnablePromise, discovery, connections,
                   wallets, signing, coreVars>>

\* what the extension answers to signRaw, and the rejection when the user
\* declines
SignerResult(source, request) ==
    [id |-> 1, signature |-> <<"signature", source, request.address,
                               request.data>>]
Cancelled == Error("Cancelled")
RawSigningUnsupported == Error("Signer unable to sign raw data")

NoSigning ==
    [pc |-> "idle", wallet |-> 0, payload |-> "", requests |-> <<>>,
     response |-> <<>>, result |-> <<>>, error |-> NoError]

\* signData that does not look for signRaw on the signer
signData_unchecked(w, payload) ==
    /\ ops < MaxOps
    /\ w \in 1..Len(wallets)
    /\ signing.pc # "signRaw"
    /\ signing' = [NoSigning EXCEPT
                       !.pc = "signRaw", !.wallet = w, !.payload = payload,
                       !.requests = <<[address |-> wallets[w].account.address,
                                       data |-> payload, type |-> "bytes"]>>]
    /\ ops' = ops + 1
    /\ UNCHANGED <<embeddedVars, chainVars, browserVars, keyVars,
                   injectedWeb3, web3EnablePromise, discovery, enabling,
                   connections, wallets, coreVars>>

\* signData(payload) of wallet w, up to `await this.signer.signRaw(...)`
signData(w, payload) ==
    /\ ops < MaxOps
    /\ w \in 1..Len(wallets)
    /\ signing.pc # "signRaw"
    /\ signing' =
         IF wallets[w].signer.signRaw
         THEN [NoSigning EXCEPT
                   !.pc = "signRaw", !.wallet = w, !.payload = payload,
                   !.requests = <<[address |-> wallets[w].account.address,
                                   data |-> payload, type |-> "bytes"]>>]
         ELSE [NoSigning EXCEPT
                   !.pc = "rejected", !.wallet = w, !.payload = payload,
                   !.error = RawSigningUnsupported]
    /\ ops' = ops + 1
    /\ UNCHANGED <<embeddedVars, chainVars, browserVars, keyVars,
                   injectedWeb3, web3EnablePromise, discovery, enabling,
                   connections, wallets, coreVars>>

\* the extension answered: the signature of the answer is returned
signData_signed ==
    /\ signing.pc = "signRaw"
    /\ LET response == SignerResult(wallets[signing.wallet].signer.source,
                                    signing.requests[1])
       IN signing' = [signing EXCEPT !.pc = "resolved",
                                     !.response = response,
                                     !.result = response.signature]
    /\ UNCHANGED <<ops, embeddedVars, chainVars, browserVars, keyVars,
                   injectedWeb3, web3EnablePromise, discovery, enabling,
                   connections, wallets, coreVars>>

\* the user declined in the extension: the rejection of signRaw leaves
\* signData as it is
signData_declined ==
    /\ signing.pc = "signRaw"
    /\ signing' = [signing EXCEPT !.pc = "rejected", !.error = Cancelled]
    /\ UNCHANGED <<ops, embeddedVars, chainVars, browserVars, keyVars,
                   injectedWeb3, web3EnablePromise, discovery, enabling,
                   connections, wallets, coreVars>>

(* --------------------------- initPolkadotApi -------------------------- *)
\* new WsProvider(endpoint, autoConnectMs, headers, timeout, cacheCapacity):
\* the provider object, with who constructed it and the arguments it was
\* constructed with ("undefined" where none was passed)
WsProvider(by, endpoint, autoConnectMs, headers, timeout, cacheCapacity) ==
    [by |-> by, endpoint |-> endpoint, autoConnectMs |-> autoConnectMs,
     headers |-> headers, timeout |-> timeout,
     cacheCapacity |-> cacheCapacity]

\* an object property that is not there, and one that is there with the
\* value undefined
NotSet ==
    WsProvider("not set", "undefined", "undefined", "undefined", "undefined",
               "undefined")
UndefinedProvider ==
    WsProvider("undefined", "undefined", "undefined", "undefined",
               "undefined", "undefined")

\* the `provider` argument: an endpoint string, or a WsProviderOptions object
EndpointString(endpoint) ==
    [isString |-> TRUE, endpoint |-> endpoint, autoConnectMs |-> "undefined",
     headers |-> "undefined", timeout |-> "undefined",
     cacheCapacity |-> "undefined"]
WsProviderOptions(endpoint, autoConnectMs, headers, timeout, cacheCapacity) ==
    [isString |-> FALSE, endpoint |-> endpoint,
     autoConnectMs |-> autoConnectMs, headers |-> headers,
     timeout |-> timeout, cacheCapacity |-> cacheCapacity]
ProviderArguments ==
    {EndpointString("ws://a"),
     WsProviderOptions("ws://a", "undefined", "undefined", "undefined",
                       "undefined"),
     WsProviderOptions("ws://b", "1000", "authorization", "5000", "64")}

\* the `apiOptions` argument: left out, or an ApiOptions object with the
\* properties that are set on it
NoApiOptions == [passed |-> FALSE, provider |-> NotSet, noInitWarn |-> "not set"]
ApiOptions(provider, noInitWarn) ==
    [passed |-> TRUE, provider |-> provider, noInitWarn |-> noInitWarn]
\* a provider the caller constructed
CallerProvider(endpoint) ==
    WsProvider("caller", endpoint, "undefined", "undefined", "undefined",
               "undefined")
ApiOptionsArguments ==
    {NoApiOptions,
     ApiOptions(NotSet, "not set"),
     ApiOptions(NotSet, "true"),
     ApiOptions(CallerProvider("ws://a"), "not set"),
     ApiOptions(CallerProvider("ws://c"), "true"),
     ApiOptions(UndefinedProvider, "not set")}

\* { provider: wsProvider, ...apiOptions }: every property that is set on
\* apiOptions replaces the property of that name written before the spread
createOptions(wsProvider, apiOptions) ==
    [provider |-> IF apiOptions.provider # NotSet THEN apiOptions.provider
                  ELSE wsProvider,
     noInitWarn |-> apiOptions.noInitWarn]

\* the provider ApiPromise.create(options) creates the API over:
\* options.provider, or a WsProvider of its own when there is none
ApiPromise_provider(options) ==
    IF options.provider \in {NotSet, UndefinedProvider}
    THEN WsProvider("ApiPromise", "undefined", "undefined", "undefined",
                    "undefined", "undefined")
    ELSE options.provider

NoApiPromise == [provider |-> NotSet]
NoInitPolkadotApi ==
    [pc |-> "idle", provider |-> EndpointString(""),
     apiOptions |-> NoApiOptions, wsProvider |-> NotSet,
     options |-> createOptions(NotSet, NoApiOptions), api |-> NoApiPromise]

\* initPolkadotApi(provider, apiOptions), up to `await ApiPromise.create`:
\* the WsProvider is constructed from the provider argument and handed to
\* ApiPromise.create in the options literal
initPolkadotApi(h, provider, apiOptions) ==
    /\ polkadotApi[h].pc = "idle"
    /\ h = "second" => polkadotApi["first"].pc # "idle"
    /\ LET wsProvider ==
               IF provider.isString
               THEN WsProvider(h, provider.endpoint, "undefined", "undefined",
                               "undefined", "undefined")
               ELSE WsProvider(h, provider.endpoint, provider.autoConnectMs,
                               provider.headers, provider.timeout,
                               provider.cacheCapacity)
       IN polkadotApi' = [polkadotApi EXCEPT ![h] =
              [pc |-> "ApiPromise.create", provider |-> provider,
               apiOptions |-> apiOptions, wsProvider |-> wsProvider,
               options |-> createOptions(wsProvider, apiOptions),
               api |-> NoApiPromise]]
    /\ UNCHANGED <<ops, embeddedVars, chainVars, browserVars, keyVars,
                   extVars>>

\* ApiPromise.create resolved: the API over the provider of the options is
\* returned
initPolkadotApi_resolve(h) ==
    /\ polkadotApi[h].pc = "ApiPromise.create"
    /\ polkadotApi' = [polkadotApi EXCEPT
           ![h].pc = "resolved",
           ![h].api = [provider |-> ApiPromise_provider(polkadotApi[h].options)]]
    /\ UNCHANGED <<ops, embeddedVars, chainVars, browserVars, keyVars,
                   extVars>>

\* ApiPromise.create rejected: so does initPolkadotApi
initPolkadotApi_reject(h) ==
    /\ polkadotApi[h].pc = "ApiPromise.create"
    /\ polkadotApi' = [polkadotApi EXCEPT ![h].pc = "rejected"]
    /\ UNCHANGED <<ops, embeddedVars, chainVars, browserVars, keyVars,
                   extVars>>

(* ---------------------------- specification --------------------------- *)
InitChain ==
    /\ ops = 0
    /\ nextIndex = 0
    /\ head = 0
    /\ included = {}

InitEmbedded ==
    /\ api = Undefined
    /\ initPc = [i \in Inits |-> "idle"]
    /\ connected = FALSE
    /\ disconnected = FALSE
    /\ call = [c \in Calls |-> NoCall]
    /\ verified = [tx |-> <<>>, outcome |-> "none"]

InitBrowserIdle ==
    /\ variant = "none"
    /\ contracts = <<>>
    /\ loaded = NoLoads
    /\ qry = <<>>
    /\ atx = <<>>
    /\ pool = {}

\* no wallet built from a derivation
InitKeyringIdle ==
    /\ built = <<>>

\* initPolkadotApi not in use
InitCoreIdle ==
    /\ polkadotApi = <<>>

\* no page with extensions
InitExtensionIdle ==
    /\ injectedWeb3 = <<>>
    /\ web3EnablePromise = FALSE
    /\ discovery = NoDiscovery
    /\ enabling = NoEnable
    /\ connections = {}
    /\ wallets = <<>>
    /\ signing = NoSigning

Init ==
    /\ InitChain /\ InitEmbedded /\ InitBrowserIdle
    /\ keyringPair = OwnPair
    /\ InitKeyringIdle /\ InitExtensionIdle /\ InitCoreIdle

Next ==
    \/ \E i \in Inits : init(i)
    \/ \E i \in Inits : init_resolve(i)
    \/ \E i \in Inits : init_reject(i)
    \/ disconnect
    \/ \E c \in Calls, tx \in UnsignedPayloads : signTx(c, tx)
    \/ \E c \in Calls : signTx_nonce(c)
    \/ \E c \in Calls : signTx_head(c)
    \/ \E c \in Calls : signTx_fail(c)
    \/ \E s \in Known : verifySignature(s)
    \/ \E c \in Calls : Include(c)

Spec == Init /\ [][Next]_vars

\* the continuation of an awaited chain request of signTx call c: the
\* request returned (signTx_nonce, signTx_head) or failed (signTx_fail)
signTx_continue(c) == signTx_nonce(c) \/ signTx_head(c) \/ signTx_fail(c)

\* every awaited request is eventually answered or fails, and the promise
\* job that continues the call is then run
SpecSettling == Spec /\ \A c \in Calls : WF_vars(signTx_continue(c))

\* a wallet with a contract registry, constructed over a ready api
InitBrowser ==
    /\ InitChain
    /\ api = Undefined
    /\ initPc = <<>>
    /\ connected = FALSE
    /\ disconnected = FALSE
    /\ call = <<>>
    /\ verified = [tx |-> <<>>, outcome |-> "none"]
    /\ variant \in {"BrowserWallet", "EmbeddedWallet"}
    /\ contracts = <<>>
    /\ loaded = NoLoads
    /\ qry = [k \in Queries |-> NoQuery]
    /\ atx = [c \in Calls |-> NoAwait]
    /\ pool = {}
    /\ keyringPair = Undefined
    /\ InitKeyringIdle /\ InitExtensionIdle /\ InitCoreIdle

NextBrowser ==
    \/ \E n \in Names, abi \in Abis, a \in Addresses : loadContract(n, abi, a)
    \/ \E k \in Queries : query(k)
    \/ \E k \in Queries, o \in Outcomes : query_settle(k, o)
    \/ \E c \in Calls : awaitTx(c)
    \/ \E c \in Calls : awaitTx_nonce(c)
    \/ \E c \in Calls : awaitTx_signed(c)
    \/ \E c \in Calls : awaitTx_submitted(c)
    \/ \E c \in Calls : awaitTx_fail(c)
    \/ \E c \in Calls : IncludeFromPool(c)

SpecBrowser == InitBrowser /\ [][NextBrowser]_vars

\* the wallets are no EmbeddedWallet of mesh-polkadot-wallet and no
\* BrowserWallet with a contract registry
InitOthersIdle ==
    /\ InitChain
    /\ api = Undefined
    /\ initPc = <<>>
    /\ connected = FALSE
    /\ disconnected = FALSE
    /\ call = <<>>
    /\ verified = [tx |-> <<>>, outcome |-> "none"]
    /\ keyringPair = Undefined
    /\ InitBrowserIdle

\* a page with its extensions, nothing called yet
InitExtension ==
    /\ InitOthersIdle
    /\ InitKeyringIdle /\ InitCoreIdle
    /\ injectedWeb3 \in Pages
    /\ web3EnablePromise = FALSE
    /\ discovery = NoDiscovery
    /\ enabling = NoEnable
    /\ connections = {}
    /\ wallets = <<>>
    /\ signing = NoSigning

NextExtension ==
    \/ \E o \in OriginNames : getAvailableWallets(o)
    \/ getAvailableWallets_enabled
    \/ \E n \in WalletNames : enable(n)
    \/ enable_accounts
    \/ enable_api
    \/ enable_api_reject
    \/ enable_injector
    \/ enable_injector_reject
    \/ \E w \in 1..Len(wallets), d \in SignPayloads : signData(w, d)
    \/ signData_signed
    \/ signData_declined

SpecExtension == InitExtension /\ [][NextExtension]_vars

\* no wallet constructed yet
InitDerive ==
    /\ InitOthersIdle
    /\ InitExtensionIdle /\ InitCoreIdle
    /\ built = [h \in Handles |-> NotBuilt]

NextDerive ==
    \E h \in Handles, options \in KeyringOptions : EmbeddedWallet_new(h, options)

SpecDerive == InitDerive /\ [][NextDerive]_vars

\* no initPolkadotApi call made yet
InitCore ==
    /\ InitOthersIdle
    /\ InitKeyringIdle /\ InitExtensionIdle
    /\ polkadotApi = [h \in Handles |-> NoInitPolkadotApi]

NextCore ==
    \/ \E h \in Handles, provider \in ProviderArguments,
          apiOptions \in ApiOptionsArguments :
            initPolkadotApi(h, provider, apiOptions)
    \/ \E h \in Handles : initPolkadotApi_resolve(h)
    \/ \E h \in Handles : initPolkadotApi_reject(h)

SpecCore == InitCore /\ [][NextCore]_vars

(* ------------------------ EmbeddedWallet: claims ---------------------- *)
InFlight == {"accountNextIndex", "getFinalizedHead"}
NoInitCompleted == \A i \in Inits : initPc[i] # "resolved"
Results == {call[c].result : c \in Resolved}

C2_SignThenVerify ==
    /\ \A c \in Resolved :
          /\ call[c].tx \in UnsignedPayloads
          /\ ~isSigned(GenericExtrinsic(call[c].tx))
          /\ isSigned(GenericExtrinsic(call[c].result))
    /\ verified.outcome \in {"true", "false"} =>
          /\ verified.tx \in UnsignedPayloads => verified.outcome = "false"
          /\ verified.tx \in Results => verified.outcome = "true"

\* C2 witness: verifySignature answered true for the payload signTx
\* returned for the empty payload, signed over a nonce other than 0.
C2_Witness ==
    \E c \in Resolved :
        /\ call[c].tx = <<>>
        /\ call[c].nonce > 0
        /\ verified = [tx |-> call[c].result, outcome |-> "true"]

\* C3: the options handed to sign by a signTx call are exactly the nonce
\* and the finalized head this call fetched, with the genesis hash and the
\* runtime version of the connection, and the signed payload carries them;
\* a nonce fetched by another call is never used.
C3_AnchorsOfThisCall ==
    \A c \in Resolved :
        /\ call[c].options =
             [nonce |-> call[c].nonce, genesisHash |-> GenesisHash,
              blockHash |-> call[c].blockHash,
              runtimeVersion |-> RuntimeVersion]
        /\ call[c].nonce \in 0..nextIndex
        /\ call[c].blockHash \in 0..head
        /\ GenericExtrinsic(call[c].result) =
             sign(GenericExtrinsic(call[c].tx), OwnPair, call[c].options)
        /\ c \in included => \A d \in included \ {c} :
                                  call[d].options.nonce # call[c].options.nonce

\* C3 witness: two calls signed, the later one over a newer nonce and head.
C3_Witness ==
    \E c, d \in Resolved :
        /\ call[c].options.nonce = 0
        /\ call[d].options.nonce = 1
        /\ call[d].options.blockHash = 1

\* C8: Disconnected is terminal: once disconnect() was called the handle
\* is never Ready (initialised over an open connection) again.
Ready == isInitialized /\ connected
C8_DisconnectedIsTerminal == disconnected => ~Ready

\* C9: signTx calls are not serialized: a new call can always start and a
\* pending nonce request can always be answered while other calls of the
\* wallet are in flight, and calls that fetch before any inclusion bind the
\* same nonce.
C9_NotSerialized ==
    /\ \A c \in Calls :
          /\ (/\ ops < MaxOps
              /\ call[c].pc = "idle"
              /\ \A d \in Calls : d < c => call[d].pc # "idle")
             => ENABLED signTx(c, <<>>)
          /\ (call[c].pc = "accountNextIndex" /\ connected)
             => ENABLED signTx_nonce(c)
    /\ included = {} =>
          \A c, d \in Calls :
              (call[c].nonce >= 0 /\ call[d].nonce >= 0)
                  => call[c].nonce = call[d].nonce

\* C9 witness: two transactions signed by the account carry the same nonce,
\* the second call having started while the first was in flight.
C9_Witness ==
    \E c, d \in Resolved :
        /\ c # d
        /\ GenericExtrinsic(call[c].result).signer = OwnPair
        /\ GenericExtrinsic(call[d].result).signer = OwnPair
        /\ GenericExtrinsic(call[c].result).nonce
             = GenericExtrinsic(call[d].result).nonce
        /\ call[d].blockHash = 0
        /\ included = {}

\* C10: when a fetch of a signTx call fails, the call rejects without
\* having signed and without a payload, and _api is left as it was.
C10_FetchFailureAborts ==
    [][\A c \in Calls :
          (call[c].error = "none" /\ call'[c].error = "transport") =>
              /\ call[c].pc \in InFlight
              /\ call'[c].pc = "rejected"
              /\ call'[c].signs = 0
              /\ call'[c].options = NoOptions
              /\ call'[c].result = <<>>
              /\ api' = api
              /\ connected' = connected
      ]_vars

\* C10 witness: one call rejected on its nonce fetch, another on its
\* finalized-head fetch.
C10_Witness ==
    \E c, d \in Calls :
        /\ call[c].error = "transport" /\ call[c].requests = 1
        /\ call[d].error = "transport" /\ call[d].requests = 2

\* C18: a wallet has at most one ApiPromise created by a completed init();
\* none is created a second time and replaces the one in _api.
C18_OneApiPerWallet ==
    Cardinality({i \in Inits : initPc[i] = "resolved"}) <= 1

C20_InitializedIffInitResolved ==
    isInitialized <=> \E i \in Inits : initPc[i] = "resolved"

\* C20 witness: the first init() rejected, the second resolved, a signTx
\* call has run since, and isInitialized() is true.
C20_Witness ==
    /\ initPc[1] = "rejected"
    /\ initPc[2] = "resolved"
    /\ call[1].pc = "resolved"
    /\ isInitialized

SignedForm(s) == Len(s) > 0 /\ s[1] >= SignedBit

\* C23: a verifySignature call of an initialised wallet answers true
\* exactly when the payload is in signed form, whoever signed it, and the
\* call changes nothing of the wallet: not _api, the key pair, a signTx
\* call or the chain.
C23_StructuralCheckOnly ==
    [][verified' # verified =>
          /\ verified'.outcome \in {"true", "false"} =>
                (verified'.outcome = "true" <=> SignedForm(verified'.tx))
          /\ api' = api
          /\ keyringPair' = keyringPair
          /\ initPc' = initPc
          /\ connected' = connected
          /\ call' = call
          /\ nextIndex' = nextIndex /\ head' = head /\ included' = included
      ]_vars

\* C23 witness: verifySignature answered true for a payload signed by a
\* pair that is not the wallet's.
C23_Witness ==
    /\ verified = [tx |-> ForeignSigned, outcome |-> "true"]
    /\ GenericExtrinsic(ForeignSigned).signer = OtherPair
    /\ keyringPair = OwnPair

\* the positions a signTx call goes through, in order, and where it can
\* reject from
SignTxSteps ==
    {<<"idle", "accountNextIndex">>, <<"idle", "rejected">>,
     <<"accountNextIndex", "getFinalizedHead">>,
     <<"accountNextIndex", "rejected">>,
     <<"getFinalizedHead", "resolved">>, <<"getFinalizedHead", "rejected">>}

\* C27: a signTx call proceeds in this order: the initialisation check,
\* the nonce fetch, the finalized-head fetch, the sign options, sign. Until
\* both fetches have answered nothing is signed and nothing returned; the
\* call resolves in the step in which sign is invoked, once, on the
\* options made of the two fetched values, and what it returns is the
\* payload that sign produced.
C27_StepsInOrder ==
    [][\A c \in Calls :
          /\ call'[c].pc # call[c].pc =>
                <<call[c].pc, call'[c].pc>> \in SignTxSteps
          /\ call'[c].pc = "accountNextIndex" =>
                /\ call'[c].registry # Undefined
                /\ call'[c].nonce = -1 /\ call'[c].blockHash = -1
          /\ call'[c].pc = "getFinalizedHead" =>
                /\ call'[c].nonce >= 0 /\ call'[c].blockHash = -1
          /\ call'[c].pc # "resolved" =>
                /\ call'[c].signs = 0
                /\ call'[c].options = NoOptions
                /\ call'[c].result = <<>>
          /\ call'[c].pc = "resolved" =>
                /\ call'[c].nonce >= 0 /\ call'[c].blockHash >= 0
                /\ call'[c].options.nonce = call'[c].nonce
                /\ call'[c].options.blockHash = call'[c].blockHash
                /\ call'[c].signs = 1
                /\ call'[c].result =
                     toHex(sign(GenericExtrinsic(call'[c].tx), keyringPair,
                                call'[c].options))
      ]_vars

\* C27 witness: one call has its nonce and waits for the finalized head,
\* nothing signed; an earlier call has resolved with one signature.
C27_Witness ==
    /\ call[1].pc = "resolved"
    /\ call[1].signs = 1
    /\ call[2].pc = "getFinalizedHead"
    /\ call[2].nonce = 1
    /\ call[2].signs = 0
    /\ call[2].result = <<>>

\* C28: a signTx call that fetches its nonce when the transactions of
\* earlier calls are already included binds a nonce greater than each of
\* theirs, so calls made one after the other's inclusion bind strictly
\* increasing nonces; and the chain takes the account's transactions in
\* the order of the nonces they were signed over, the n-th included one
\* carrying nonce n - 1.
C28_SequentialNoncesIncrease ==
    [][/\ \A d \in Calls :
             (call[d].pc = "accountNextIndex" /\ call'[d].pc = "getFinalizedHead")
             => /\ \A c \in included : call'[d].nonce > call[c].nonce
                /\ call'[d].nonce = Cardinality(included)
       /\ \A c \in included' \ included :
             /\ GenericExtrinsic(call[c].result).nonce = Cardinality(included)
             /\ \A b \in included :
                   GenericExtrinsic(call[b].result).nonce
                       < GenericExtrinsic(call[c].result).nonce
      ]_vars

\* C28 witness: the second call started after the transaction of the first
\* was included (it signed over the head of that block); it bound nonce 1
\* after nonce 0, and the chain has included both.
C28_Witness ==
    /\ included = {1, 2}
    /\ call[1].options.nonce = 0 /\ call[1].options.blockHash = 0
    /\ call[2].options.nonce = 1 /\ call[2].options.blockHash = 1
    /\ nextIndex = 2

\* C32: a resolved signTx call read all its anchors from one API handle:
\* the handle whose genesis hash and runtime version went into the sign
\* options is the handle whose registry decoded the payload and which was
\* sent the accountNextIndex request, whatever init() calls ran meanwhile.
C32_AnchorsFromOneHandle ==
    \A c \in Resolved : call[c].signedWith = call[c].registry

\* C34: no signTx call awaits forever: every call is again and again in a
\* state in which it awaits no chain request. A call that awaits leaves
\* that state only by resolving with a signed payload or by rejecting, so
\* every started call eventually settles, whatever the other calls of the
\* wallet do.
C34_SignTxSettles ==
    \A c \in Calls : []<>(call[c].pc \notin InFlight)

\* C34 witness: two calls were in flight together; one has resolved with a
\* signed payload while the other, started first, is still awaiting.
C34_Witness ==
    \E c, d \in Calls :
        /\ c < d
        /\ call[c].pc \in InFlight
        /\ call[d].pc = "resolved"
        /\ isSigned(GenericExtrinsic(call[d].result))

(* ------------------------- BrowserWallet: claims ---------------------- *)
Settled == {k \in Queries : qry[k].pc \in {"resolved", "rejected"}}

\* C4: no step of a query (its start, or its continuation on an Ok, an Err
\* or a rejected dry run) changes the account's next index, the pool, the
\* included transactions or any awaitTx call, so a later awaitTx binds the
\* nonce it would have bound without the queries; a query signs and
\* submits nothing.
C4_QueryLeavesNonce ==
    [][qry' # qry =>
          /\ nextIndex' = nextIndex
          /\ pool' = pool
          /\ included' = included
          /\ head' = head
          /\ atx' = atx
      ]_vars

\* C4 witness: dry runs have settled with Ok and with Err, and an awaitTx
\* started after them bound the nonce 0 of an account without transactions.
C4_Witness ==
    /\ \E k \in Settled : qry[k].outcome.isOk
    /\ \E k \in Settled : qry[k].pc = "rejected" /\ ~qry[k].outcome.isOk
    /\ atx[1].pc = "signPayload"
    /\ atx[1].nonce = 0
    /\ ops = 3

\* C5: query resolves with the output whenever the awaited outcome is Ok,
\* and rejects with the decoded error whenever the outcome is Err.
C5_OkResolvesErrThrows ==
    \A k \in Settled :
        qry[k].outcome.settled = "fulfilled" =>
            IF qry[k].outcome.isOk
            THEN qry[k].pc = "resolved" /\ qry[k].value = qry[k].outcome.output
            ELSE qry[k].pc = "rejected" /\ qry[k].value = qry[k].outcome.asErr

\* C6: an awaitTx call has resolved only if its transaction is included in
\* a block.
C6_ResolvedAfterInclusion ==
    \A c \in Calls : atx[c].pc = "resolved" => c \in included

\* C7: in either wallet class a name of the registry resolves to the handle
\* built from the latest loadContract call under that name whose interface
\* description parsed: loading an existing name rebinds it, the registry
\* has exactly the names loaded, and such a call returns normally.
C7_RebindLastWins ==
    /\ DOMAIN contracts = DOMAIN loaded.recent
    /\ \A n \in DOMAIN contracts :
          contracts[n] =
              ContractPromise(loaded.recent[n].abi, loaded.recent[n].address)
    /\ DOMAIN contracts \subseteq Names

\* C7 witness: a name loaded twice resolves to the second handle while
\* another name keeps its own, in a BrowserWallet.
C7_Witness ==
    /\ variant = "BrowserWallet"
    /\ DOMAIN contracts = {"x", "y"}
    /\ loaded.recent["x"].loads = 2
    /\ contracts["x"] = ContractPromise("abi2", "addr2")
    /\ contracts["y"] = ContractPromise("abi1", "addr1")
    /\ loaded.last = "returned"

\* C17: query and submission are decoupled. Whatever dry runs have settled,
\* the nonces consumed and the transactions in the pool or in a block are
\* exactly those of awaitTx calls the caller made and that submitted; and
\* the caller's next awaitTx can start whenever the wallet has one left,
\* also directly after a dry run that returned Err.
C17_QueryAndSubmitDecoupled ==
    /\ pool \cup included = {c \in Calls : atx[c].pc = "resolved"}
    /\ nextIndex = Cardinality({c \in Calls : atx[c].pc = "resolved"})
    /\ \A c \in Calls :
          (/\ variant = "BrowserWallet"
           /\ ops < MaxOps
           /\ atx[c].pc = "idle"
           /\ \A d \in Calls : d < c => atx[d].pc # "idle")
          => ENABLED awaitTx(c)

\* C17 witness: the first call was a dry run that returned Err, with
\* nothing submitted; the awaitTx made directly after it submitted its
\* transaction with nonce 0.
C17_Witness ==
    /\ ErrQueries = {1}
    /\ qry[2].pc = "idle"
    /\ atx[1].pc = "resolved"
    /\ atx[1].nonce = 0
    /\ pool = {1}
    /\ ops = 2

\* C21: a loadContract call (the one step of the wallet that is neither a
\* query nor an awaitTx step) leaves the account's next index, the pool,
\* the chain, every awaitTx and query call and the key pair as they are,
\* and there is one name such that the registry entries of all other names
\* are the same before and after.
C21_LoadContractIsLocal ==
    [][(ops' = ops + 1 /\ qry' = qry /\ atx' = atx) =>
          /\ nextIndex' = nextIndex
          /\ pool' = pool
          /\ included' = included
          /\ head' = head
          /\ keyringPair' = keyringPair
          /\ \E n \in Names :
                /\ DOMAIN contracts' \subseteq DOMAIN contracts \cup {n}
                /\ \A m \in DOMAIN contracts \ {n} :
                      /\ m \in DOMAIN contracts'
                      /\ contracts'[m] = contracts[m]
      ]_vars

\* C21 witness: while an awaitTx call holds its nonce and waits for the
\* signer, two names are loaded, one of them a second time.
C21_Witness ==
    /\ atx[1].pc = "signPayload"
    /\ nextIndex = 0
    /\ DOMAIN contracts = {"x", "y"}
    /\ loaded.recent["y"].loads = 2
    /\ contracts["x"] = ContractPromise("abi1", "addr1")
    /\ contracts["y"] = ContractPromise("abi2", "addr1")

\* the queries whose dry-run promise itself rejected
TransportQueries ==
    {k \in Queries : /\ qry[k].pc = "rejected"
                     /\ qry[k].outcome.settled = "rejected"}

\* C24: a query whose dry-run promise rejected has rejected with the
\* reason of that promise, a query whose dry run returned Err has rejected
\* with the decoded error of the outcome, and no query of the first kind
\* has the rejection value of a query of the second kind.
C24_ContractVsTransport ==
    /\ \A k \in Settled :
          /\ qry[k].outcome.settled = "rejected" =>
                /\ qry[k].pc = "rejected"
                /\ qry[k].value = qry[k].outcome.output
          /\ (qry[k].outcome.settled = "fulfilled" /\ ~qry[k].outcome.isOk) =>
                /\ qry[k].pc = "rejected"
                /\ qry[k].value = qry[k].outcome.asErr
    /\ \A j \in TransportQueries, k \in ErrQueries :
          qry[j].value # qry[k].value

\* C24 witness: one query rejected with the reason of its rejected dry-run
\* promise, another with the decoded ContractTrapped error.
C24_Witness ==
    /\ 1 \in TransportQueries
    /\ qry[1].value = "disconnected"
    /\ 2 \in ErrQueries
    /\ qry[2].value = "ContractTrapped"

\* C30: a query whose dry run returned an Ok result has resolved, with or
\* without a decoded output; a query that rejected did so with the decoded
\* Err of its outcome or with the rejection of the dry-run promise.
C30_OkNeverRejects ==
    \A k \in Settled :
        /\ (qry[k].outcome.settled = "fulfilled" /\ qry[k].outcome.isOk) =>
               qry[k].pc = "resolved"
        /\ qry[k].pc = "rejected" =>
               \/ k \in ErrQueries /\ qry[k].value = qry[k].outcome.asErr
               \/ k \in TransportQueries /\ qry[k].value = qry[k].outcome.output

(* ----------------- BrowserWallet over extensions: claims -------------- *)
\* C11: a settled getAvailableWallets call has asked the page for its
\* extensions exactly once; it rejected with the "No extension installed"
\* error exactly when the page has no extension, and otherwise it resolved
\* with the extensions (name and version) in the order of the page.
C11_DiscoverOnceOrNoProvider ==
    discovery.pc \in {"resolved", "rejected"} =>
        /\ discovery.calls = 1
        /\ IF Len(injectedWeb3) = 0
           THEN /\ discovery.pc = "rejected"
                /\ discovery.error = Error("No extension installed")
                /\ discovery.result = <<>>
           ELSE /\ discovery.pc = "resolved"
                /\ discovery.error = NoError
                /\ Len(discovery.result) = Len(injectedWeb3)
                /\ \A i \in 1..Len(injectedWeb3) :
                      /\ discovery.result[i].name = injectedWeb3[i].name
                      /\ discovery.result[i].version = injectedWeb3[i].version

\* C11 witness: on a page without extensions the call was rejected after
\* one discovery call.
C11_Witness ==
    /\ injectedWeb3 = <<>>
    /\ discovery.pc = "rejected"
    /\ discovery.originName = "test-app"
    /\ discovery.calls = 1

\* the extension of the page with the given name
ExtensionNamed(name) ==
    injectedWeb3[CHOOSE i \in 1..Len(injectedWeb3) : injectedWeb3[i].name = name]

EnableCauses == {NeedsWeb3Enable, NoAccountsFound, ApiCreateFailed, NoInjector}

\* C13: the error an enable call rejects with is a wrapping Error that
\* carries what the failing step threw: it is not the error enable rejects
\* with for any other cause.
C13_FailureCarriesCause ==
    enabling.pc = "rejected" =>
        /\ enabling.error.name = "Error"
        /\ \A other \in EnableCauses \ {enabling.cause} :
              EnableError(other) # enabling.error

\* C14: a signData call on a wallet whose signer has no signRaw is rejected
\* with the "Signer unable to sign raw data" error and has sent nothing to
\* the extension; on a signer with signRaw it has sent exactly one request,
\* for the wallet's account address, with the payload as given and type
\* bytes, it resolves with the signature of the extension's answer, and
\* when the user declines it rejects with the extension's rejection.
C14_RawSigningOrUnsupported ==
    signing.pc # "idle" =>
        LET w == wallets[signing.wallet]
        IN IF ~w.signer.signRaw
           THEN /\ signing.pc = "rejected"
                /\ signing.error = RawSigningUnsupported
                /\ signing.requests = <<>>
                /\ signing.result = <<>>
           ELSE /\ signing.requests =
                     <<[address |-> w.account.address,
                        data |-> signing.payload, type |-> "bytes"]>>
                /\ signing.pc = "resolved" =>
                      /\ signing.result = signing.response.signature
                      /\ signing.error = NoError
                /\ signing.pc = "rejected" =>
                      /\ signing.error = Cancelled
                      /\ signing.result = <<>>

\* C14 witness: signData was rejected as unsupported on a wallet enabled
\* over an extension whose signer has no signRaw, without a request.
C14_Witness ==
    /\ signing.pc = "rejected"
    /\ signing.error = RawSigningUnsupported
    /\ signing.payload = "hello"
    /\ signing.requests = <<>>
    /\ ~ExtensionNamed(wallets[signing.wallet].signer.source).signRaw

\* C31: once an enable call has rejected, the connection that call opened
\* with initPolkadotApi (if it got that far) is no longer open.
C31_FailedEnableClosesConnection ==
    enabling.pc = "rejected" => enabling.id \notin connections

(* --------------------- buildDerivation: claims ------------------------ *)
\* "//" + hard when the hard segment is present and not empty, nothing
\* otherwise; likewise "/" + soft
HardPart(hard) ==
    IF hard.present /\ hard.chars # <<>> THEN <<"/", "/">> \o hard.chars
    ELSE <<>>
SoftPart(soft) ==
    IF soft.present /\ soft.chars # <<>> THEN <<"/">> \o soft.chars ELSE <<>>

\* C15: the derivation string of every constructed wallet is its phrase,
\* then "//" and the hard segment when that segment is present, then "/"
\* and the soft segment when that one is present, with the phrase and the
\* segments as passed; an absent or empty segment adds nothing.
C15_StraightConcatenation ==
    \A h \in Handles :
        built[h].constructed =>
            built[h].suri =
                built[h].options.phrase
                    \o HardPart(built[h].options.hardDerivation)
                    \o SoftPart(built[h].options.softDerivation)

\* C15 witness: one wallet built with both segments, one with an empty
\* hard segment and no soft segment.
C15_Witness ==
    /\ built["first"].constructed
    /\ built["first"].options.hardDerivation = Str(<<"a">>)
    /\ built["first"].options.softDerivation = Str(<<"b">>)
    /\ built["first"].suri = <<"p", "/", "/", "a", "/", "b">>
    /\ built["second"].constructed
    /\ built["second"].options.hardDerivation = Str(<<>>)
    /\ built["second"].options.softDerivation = Absent
    /\ built["second"].suri = <<"q">>

\* C16: two wallets constructed with the same key type, phrase, hard and
\* soft segment hand the same derivation string to the keyring and get the
\* same pair, whatever api each was given and whichever was built first.
C16_DeterministicDerivation ==
    \A g, h \in Handles :
        (/\ built[g].constructed /\ built[h].constructed
         /\ built[g].options.keyType = built[h].options.keyType
         /\ built[g].options.phrase = built[h].options.phrase
         /\ built[g].options.hardDerivation = built[h].options.hardDerivation
         /\ built[g].options.softDerivation = built[h].options.softDerivation)
        => /\ built[g].suri = built[h].suri
           /\ built[g].account = built[h].account

\* C16 witness: two wallets over different apis, built from the same key
\* type, phrase and segments, have the same pair.
C16_Witness ==
    /\ built["first"].constructed /\ built["second"].constructed
    /\ built["first"].api # built["second"].api
    /\ built["first"].options.keyType = "sr25519"
    /\ built["second"].options.keyType = "sr25519"
    /\ built["first"].suri = <<"p", "/", "/", "a", "/", "b">>
    /\ built["second"].suri = <<"p", "/", "/", "a", "/", "b">>
    /\ built["first"].options.hardDerivation
         = built["second"].options.hardDerivation
    /\ built["first"].account = built["second"].account
    /\ built["first"].account.path =
         <<[hard |-> TRUE, name |-> <<"a">>], [hard |-> FALSE, name |-> <<"b">>]>>

\* C25: the signer of the api of every wallet that enable constructed is
\* the signer resolved for the wallet's account, so that what is signed
\* through the api goes to that signer.
C25_SignerBoundIntoApi ==
    \A w \in 1..Len(wallets) : wallets[w].apiSigner = wallets[w].signer

\* C26: an enable call does its own discovery: whether or not
\* getAvailableWallets was called before it, the call gets as far as the
\* account list of its provider.
C26_EnableRunsDiscovery ==
    enabling.pc \notin {"idle", "web3Accounts"} => enabling.listed

\* C29: of two wallets built from the same phrase and the same soft
\* segment (or none), one with a hard segment that is not empty and one
\* without a hard segment, the derivation strings differ, and so do the
\* derivation paths the keyring derives the pairs along.
C29_HardSegmentChangesDerivation ==
    \A g, h \in Handles :
        (/\ built[g].constructed /\ built[h].constructed
         /\ built[g].options.phrase = built[h].options.phrase
         /\ built[g].options.softDerivation = built[h].options.softDerivation
         /\ built[g].options.hardDerivation.present
         /\ built[g].options.hardDerivation.chars # <<>>
         /\ ~built[h].options.hardDerivation.present)
        => /\ built[g].suri # built[h].suri
           /\ built[g].account.path # built[h].account.path

\* C29 witness: the same phrase and soft segment with hard segment "a" and
\* without a hard segment give "p//a/b" and "p/b".
C29_Witness ==
    /\ built["first"].constructed /\ built["second"].constructed
    /\ built["first"].options.hardDerivation = Str(<<"a">>)
    /\ built["second"].options.hardDerivation = Absent
    /\ built["first"].options.keyType = built["second"].options.keyType
    /\ built["first"].suri = <<"p", "/", "/", "a", "/", "b">>
    /\ built["second"].suri = <<"p", "/", "b">>
    /\ built["first"].account # built["second"].account

\* C33: for one phrase, two wallets constructed with different pairs
\* (hard segment, soft segment) have different derivation strings.
C33_DerivationInjective ==
    \A g, h \in Handles :
        (/\ built[g].constructed /\ built[h].constructed
         /\ built[g].options.phrase = built[h].options.phrase
         /\ <<built[g].options.hardDerivation, built[g].options.softDerivation>>
              # <<built[h].options.hardDerivation,
                   built[h].options.softDerivation>>)
        => built[g].suri # built[h].suri

(* ------------------------ initPolkadotApi: claims --------------------- *)
\* C35: the options of every initPolkadotApi call hand ApiPromise.create
\* the WsProvider that this call constructed from its provider argument
\* (the endpoint string, or the five fields of the options object), and the
\* API a resolved call returns is created over that provider, whatever
\* apiOptions holds.
C35_ApiOverArgumentProvider ==
    \A h \in Handles :
        polkadotApi[h].pc # "idle" =>
            LET p == polkadotApi[h].provider
                built_ == WsProvider(h, p.endpoint, p.autoConnectMs,
                                     p.headers, p.timeout, p.cacheCapacity)
            IN /\ polkadotApi[h].options.provider = built_
               /\ polkadotApi[h].pc = "resolved" =>
                      polkadotApi[h].api.provider = built_

====
